---- MODULE Spec2Model ----
(***************************************************************************)
(* Model of src/script.js: the star trail that follows the pointer over    *)
(* the #book-banner element.  The state is the script's module-level       *)
(* state (isHovering, last), the banner's star children, the pending       *)
(* setTimeout callbacks and the wall clock read by new Date().getTime().   *)
(* Handlers run to completion on the single event loop: one action per     *)
(* handler.                                                                *)
(***************************************************************************)
EXTENDS Integers, Sequences, FiniteSets, TLC

VARIABLES
    isHovering,   \* script.js:8
    last,         \* script.js:24-28  [starTimestamp, starPosition, mousePosition]
    clock,        \* the value new Date().getTime() returns, relative to page load
    stars,        \* every span createStar has built, in creation order
    children,     \* indices (into stars) of the spans that are children of banner
    timers,       \* pending setTimeout callbacks: [star, due]
    uncaught,     \* names of the exceptions handlers have thrown
    ev,           \* the kind of the last pointer or hover event delivered
    resetPending, \* document.body.onmouseleave ran and no gated sample was processed since
    palettes      \* script.js:33-34  the palettes of config: [colors, sizes]

vars == <<isHovering, last, clock, stars, children, timers, uncaught, ev, resetPending, palettes>>

----------------------------------------------------------------------------
(* Bounds of the exploration *)

MaxJitter == 1        \* the clock is explored up to this many ms past each instant of GridTimes
MaxDrift == 1         \* the clock advances at most this much between two reads in a handler
MaxStars == 2         \* createStar runs at most this many times
MaxTouches == 2       \* a touch event carries at most this many touch points
RandomSteps == 3      \* Math.random() is explored at k / RandomSteps, k \in 0..RandomSteps-1

----------------------------------------------------------------------------
(* Constants of the script *)

originPosition == [x |-> 0, y |-> 0]

minimumTimeBetweenStars == 200
minimumDistanceBetweenStars == 100
StarLifetime == 3000

colors == <<"159, 81, 178", "59, 54, 178", "231, 233, 235">>
sizes == <<"1.4rem", "1rem", "0.6rem">>

config == [minimumTimeBetweenStars |-> minimumTimeBetweenStars,
           minimumDistanceBetweenStars |-> minimumDistanceBetweenStars,
           colors |-> colors,
           sizes |-> sizes]

(* Pointer positions the host reports (clientX, clientY).  (0,0) is a real   *)
(* position as well as the sentinel.  (0,0)-(60,80) is exactly 100 apart,    *)
(* (60,80)-(130,80) is 70 apart and (0,0)-(130,80) is 152.6 apart.           *)
Positions ==
    { [x |-> 0, y |-> 0], [x |-> 60, y |-> 80], [x |-> 130, y |-> 80] }

(* The argument of handleOnMove: a mouse event, a touch point, or undefined. *)
Undefined == [defined |-> FALSE, clientX |-> 0, clientY |-> 0]
PointerEvent(p) == [defined |-> TRUE, clientX |-> p.x, clientY |-> p.y]

Randoms == 0 .. (RandomSteps - 1)

----------------------------------------------------------------------------
(* Pure helpers *)

(* Variant: Math.ceil in place of Math.floor. *)
randCeil(min, max, r) ==
    ((r * (max - min + 1) + RandomSteps - 1) \div RandomSteps) + min

(* Math.floor(Math.random() * (max - min + 1)) + min, Math.random() = r / RandomSteps *)
rand(min, max, r) == ((r * (max - min + 1)) \div RandomSteps) + min

(* items[rand(0, items.length - 1)]; JavaScript indexes from 0, TLA+ from 1 *)
selectRandom(items, r) ==
    LET i == rand(0, Len(items) - 1, r)
    IN  IF i + 1 \in DOMAIN items THEN items[i + 1] ELSE "undefined"

withUnit(value, unit) == <<value, unit>>
px(value) == withUnit(value, "px")

(* floor of the square root of n, by bisection of lo .. hi *)
RECURSIVE SqrtBetween(_, _, _)
SqrtBetween(n, lo, hi) ==
    IF lo = hi THEN lo
    ELSE LET mid == (lo + hi + 1) \div 2
         IN  IF mid * mid <= n THEN SqrtBetween(n, mid, hi)
                               ELSE SqrtBetween(n, lo, mid - 1)

(* The roots that occur, computed once: the squared distances between the   *)
(* positions the host reports.                                              *)
SqrtTable ==
    [ n \in { (b.x - a.x) * (b.x - a.x) + (b.y - a.y) * (b.y - a.y) :
                 a \in Positions, b \in Positions } |-> SqrtBetween(n, 0, n) ]

ISqrt(n) == IF n \in DOMAIN SqrtTable THEN SqrtTable[n] ELSE SqrtBetween(n, 0, n)

(* Math.sqrt(diffX^2 + diffY^2).  The result is only ever compared with the  *)
(* integer threshold, and sqrt(n) >= k iff floor(sqrt(n)) >= k for integer   *)
(* n and k, so the floor of the root stands for the root.                    *)
(* Variant: the square root left out. *)
calcDistanceSquared(a, b) ==
    LET diffX == b.x - a.x
        diffY == b.y - a.y
    IN  diffX * diffX + diffY * diffY

calcDistance(a, b) ==
    LET diffX == b.x - a.x
        diffY == b.y - a.y
    IN  ISqrt(diffX * diffX + diffY * diffY)

(* Variant: the operands swapped. *)
calcElapsedTimeSwapped(start, end) == start - end

calcElapsedTime(start, end) == end - start

(* Variant: > in place of >=. *)
hasMovedStrictlyFarther(starPosition, mousePosition) ==
    calcDistance(starPosition, mousePosition) > config.minimumDistanceBetweenStars

hasMovedFarEnough(starPosition, mousePosition) ==
    calcDistance(starPosition, mousePosition) >= config.minimumDistanceBetweenStars

(* Variant: >= in place of >. *)
hasBeenLongEnoughInclusive(starTimestamp, now) ==
    calcElapsedTime(starTimestamp, now) >= config.minimumTimeBetweenStars

hasBeenLongEnough(starTimestamp, now) ==
    calcElapsedTime(starTimestamp, now) > config.minimumTimeBetweenStars

----------------------------------------------------------------------------
(* Updates of the throttle state `last` *)

(* Variant: the position is not recorded. *)
updateLastStarTimeOnly(l, position, time) ==
    [l EXCEPT !.starTimestamp = time]

updateLastStar(l, position, time) ==
    [l EXCEPT !.starTimestamp = time, !.starPosition = position]

(* Variants: nothing is recorded; the star position is overwritten too. *)
keepLastMousePosition(l, position) == l

updateLastMouseAndStarPosition(l, position) ==
    [l EXCEPT !.mousePosition = position, !.starPosition = position]

updateLastMousePosition(l, position) ==
    [l EXCEPT !.mousePosition = position]

(* Variant: the sentinel correction also moves last.starPosition. *)
adjustLastStarPosition(l, position) ==
    IF l.mousePosition.x = 0 /\ l.mousePosition.y = 0
    THEN [l EXCEPT !.mousePosition = position, !.starPosition = position]
    ELSE l

adjustLastMousePosition(l, position) ==
    IF l.mousePosition.x = 0 /\ l.mousePosition.y = 0
    THEN [l EXCEPT !.mousePosition = position]
    ELSE l

----------------------------------------------------------------------------
(* Stars *)

(* The span createStar builds; rc and rs are the two Math.random() draws. *)
NewStar(position, rc, rs, time) ==
    LET color == selectRandom(palettes.colors, rc)
    IN  [left |-> px(position.x),
         top |-> px(position.y),
         fontSize |-> selectRandom(palettes.sizes, rs),
         color |-> color,
         textShadow |-> color,
         position |-> position,
         appendedAt |-> time]

(* Variant: the removal is scheduled twice. *)
removeElementTwice(pending, element, delay, time) ==
    pending \cup { [star |-> element, due |-> time + delay],
                   [star |-> element, due |-> time + delay + 1] }

(* Variant: the delay is dropped. *)
removeElementNoDelay(pending, element, delay, time) ==
    pending \cup { [star |-> element, due |-> time] }

(* setTimeout(() => banner.removeChild(element), delay) called at `time` *)
removeElement(pending, element, delay, time) ==
    pending \cup { [star |-> element, due |-> time + delay] }

(* banner.appendChild(element) *)
appendElement(kids, element) == kids \cup {element}

----------------------------------------------------------------------------
(* The state once the script has run to its end, whatever config holds. *)
ScriptLoaded ==
    /\ isHovering = FALSE
    /\ clock = 0
    /\ last = [starTimestamp |-> 0,
               starPosition |-> originPosition,
               mousePosition |-> originPosition]
    /\ stars = <<>>
    /\ children = {}
    /\ timers = {}
    /\ uncaught = {}
    /\ ev = "load"
    /\ resetPending = FALSE

Init ==
    /\ palettes = [colors |-> config.colors, sizes |-> config.sizes]
    /\ ScriptLoaded

(* The clock readings that are explored: page load, one throttle interval   *)
(* later and one star lifetime later, each with the few milliseconds that   *)
(* follow it.                                                               *)
GridTimes == { 0, minimumTimeBetweenStars, StarLifetime }

ClockReadings == { g + j : g \in GridTimes, j \in 0 .. MaxJitter }

ClockMayReach(t) == t \in ClockReadings

(* The body of handleOnMove once the hover gate has let the event through. *)
(* Reading e.clientX of undefined throws.  In a spawning call the clock may *)
(* advance between the read of `now`, createStar and the clock read of      *)
(* updateLastStar: by d1 and then d2, each drawn from `drifts`; rc and rs,  *)
(* drawn from `draws`, are the two Math.random() results createStar uses.   *)
HandleGated(e, drifts, draws) ==
    IF ~e.defined
    THEN /\ uncaught' = uncaught \cup {"TypeError"}
         /\ UNCHANGED <<last, clock, stars, children, timers, resetPending>>
    ELSE
    LET mousePosition == [x |-> e.clientX, y |-> e.clientY]
        adjusted == adjustLastMousePosition(last, mousePosition)
        now == clock
    IN  /\ resetPending' = FALSE
        /\ IF \/ hasMovedFarEnough(adjusted.starPosition, mousePosition)
              \/ hasBeenLongEnough(adjusted.starTimestamp, now)
           THEN /\ Len(stars) < MaxStars
                /\ \E d1, d2 \in drifts :
                     /\ ClockMayReach(now + d1 + d2)
                     /\ clock' = now + d1 + d2
                     /\ last' = updateLastMousePosition(
                                    updateLastStar(adjusted, mousePosition, now + d1 + d2),
                                    mousePosition)
                     /\ children' = appendElement(children, Len(stars) + 1)
                     /\ timers' = removeElement(timers, Len(stars) + 1, StarLifetime,
                                                now + d1)
                     /\ \E rc, rs \in draws :
                          stars' = Append(stars, NewStar(mousePosition, rc, rs, now + d1))
                /\ UNCHANGED uncaught
           ELSE /\ last' = updateLastMousePosition(adjusted, mousePosition)
                /\ UNCHANGED <<clock, stars, children, timers, uncaught>>

(* Variant: handleOnMove without the isHovering test. *)
handleOnMoveUngated(e, drifts, draws) == HandleGated(e, drifts, draws)

(* handleOnMove(e) *)
handleOnMove(e, drifts, draws) ==
    IF isHovering
    THEN HandleGated(e, drifts, draws)
    ELSE UNCHANGED <<last, clock, stars, children, timers, uncaught, resetPending>>

----
(* Events *)

(* banner 'mouseenter' *)
BannerMouseEnter ==
    /\ isHovering' = TRUE
    /\ ev' = "mouseenter"
    /\ UNCHANGED <<last, clock, stars, children, timers, uncaught, resetPending, palettes>>

(* banner 'mouseleave' *)
BannerMouseLeave ==
    /\ isHovering' = FALSE
    /\ ev' = "mouseleave"
    /\ UNCHANGED <<last, clock, stars, children, timers, uncaught, resetPending, palettes>>

(* window.onmousemove = e => handleOnMove(e), for an event at p.  Spec and  *)
(* SpecFake explore the first random draw only (palette index 0); the       *)
(* draws are a parameter of handleOnMove.                                   *)
onmousemove(p, drifts) ==
    /\ ev' = "mousemove"
    /\ UNCHANGED <<isHovering, palettes>>
    /\ handleOnMove(PointerEvent(p), drifts, {0})

WindowMouseMove ==
    \E p \in Positions : onmousemove(p, 0 .. MaxDrift)

(* The touch lists explored: the empty list, and every first touch point    *)
(* followed by up to MaxTouches - 1 further fingers (which the handler      *)
(* never reads).                                                            *)
TouchList(p, n) == [i \in 1 .. n |-> IF i = 1 THEN p ELSE [x |-> 130, y |-> 80]]

Touches == {<<>>} \cup { TouchList(p, n) : p \in Positions, n \in 1 .. MaxTouches }

(* e.touches[0] *)
FirstTouch(touches) ==
    IF Len(touches) > 0 THEN PointerEvent(touches[1]) ELSE Undefined

(* window.ontouchmove = e => handleOnMove(e.touches[0]) *)
ontouchmove(touches, drifts) ==
    /\ ev' = "touchmove"
    /\ UNCHANGED <<isHovering, palettes>>
    /\ handleOnMove(FirstTouch(touches), drifts, {0})

WindowTouchMove ==
    \E touches \in Touches : ontouchmove(touches, 0 .. MaxDrift)

(* document.body.onmouseleave *)
BodyMouseLeave ==
    /\ last' = updateLastMousePosition(last, originPosition)
    /\ ev' = "bodyleave"
    /\ resetPending' = TRUE
    /\ UNCHANGED <<isHovering, clock, stars, children, timers, uncaught, palettes>>

(* Variant: the callback empties the banner. *)
RemoveAllChildren(fired) ==
    /\ children' = {}
    /\ uncaught' = uncaught

(* banner.removeChild(element) for every callback in `fired`: throws       *)
(* NotFoundError when the element is not a child of banner.                *)
RemoveChildren(fired) ==
    /\ children' = children \ { t.star : t \in fired }
    /\ uncaught' = IF \E t \in fired : t.star \notin children
                   THEN uncaught \cup {"NotFoundError"}
                   ELSE uncaught

(* A setTimeout callback runs, at or after its due time. *)
TimerFire ==
    \E t \in timers :
        /\ t.due <= clock
        /\ timers' = timers \ {t}
        /\ RemoveChildren({t})
        /\ UNCHANGED <<isHovering, last, clock, stars, ev, resetPending, palettes>>

(* Time passes between two events. *)
Tick ==
    \E t \in ClockReadings :
        /\ t > clock
        /\ clock' = t
        /\ UNCHANGED <<isHovering, last, stars, children, timers, uncaught, ev, resetPending, palettes>>

Next ==
    \/ BannerMouseEnter
    \/ BannerMouseLeave
    \/ WindowMouseMove
    \/ WindowTouchMove
    \/ BodyMouseLeave
    \/ TimerFire
    \/ Tick

Spec == Init /\ [][Next]_vars

----------------------------------------------------------------------------
(* The same handlers under a simulated clock: Date and setTimeout are       *)
(* driven by the test, the clock stands still while a handler runs, and     *)
(* advancing it to t runs every callback that is due by t.                  *)

FakeMouseMove ==
    \E p \in Positions : onmousemove(p, {0})

FakeTouchMove ==
    \E touches \in Touches : ontouchmove(touches, {0})

AdvanceTimersByTime ==
    \E t \in ClockReadings :
        /\ t > clock
        /\ clock' = t
        /\ LET fired == { tm \in timers : tm.due <= t }
           IN  /\ timers' = timers \ fired
               /\ RemoveChildren(fired)
        /\ UNCHANGED <<isHovering, last, stars, ev, resetPending, palettes>>

NextFake ==
    \/ BannerMouseEnter
    \/ BannerMouseLeave
    \/ FakeMouseMove
    \/ FakeTouchMove
    \/ BodyMouseLeave
    \/ AdvanceTimersByTime

SpecFake == Init /\ [][NextFake]_vars

----------------------------------------------------------------------------
(* The page tears the surface down while stars are still on it: the banner  *)
(* is emptied, so no star is a child of it any more.  The timers that       *)
(* createStar scheduled stay pending.                                       *)

SurfaceTornDown ==
    /\ children # {}
    /\ children' = {}
    /\ UNCHANGED <<isHovering, last, clock, stars, timers, uncaught, ev, resetPending, palettes>>

NextTornDown ==
    \/ Next
    \/ SurfaceTornDown

SpecTornDown == Init /\ [][NextTornDown]_vars

----------------------------------------------------------------------------
(* The script loaded with other palettes in config: every prefix of the     *)
(* palettes as written, the empty one included.  The clock stands still and *)
(* every random draw is explored.                                           *)

PaletteChoices(items) == { SubSeq(items, 1, n) : n \in 0 .. Len(items) }

InitAnyPalettes ==
    /\ palettes \in [colors : PaletteChoices(config.colors),
                     sizes : PaletteChoices(config.sizes)]
    /\ ScriptLoaded

AnyDrawMouseMove ==
    \E p \in Positions :
        /\ ev' = "mousemove"
        /\ UNCHANGED <<isHovering, palettes>>
        /\ handleOnMove(PointerEvent(p), {0}, Randoms)

NextAnyPalettes ==
    \/ BannerMouseEnter
    \/ AnyDrawMouseMove

SpecAnyPalettes == InitAnyPalettes /\ [][NextAnyPalettes]_vars

----------------------------------------------------------------------------
(* Vocabulary of the properties *)

(* The square of the Euclidean distance between two positions. *)
DistSq(a, b) == (b.x - a.x) * (b.x - a.x) + (b.y - a.y) * (b.y - a.y)

AtLeast100Apart(a, b) == DistSq(a, b) >= 100 * 100

(* The step delivers a pointer-move event whose position is p: a mouse move *)
(* at p, or a touch move whose first touch point is p.                      *)
Sample(p) ==
    \/ onmousemove(p, 0 .. MaxDrift)
    \/ \E n \in 1 .. MaxTouches : ontouchmove(TouchList(p, n), 0 .. MaxDrift)

(* The step delivers a pointer-move event of any kind. *)
PointerMove ==
    \/ \E p \in Positions : onmousemove(p, 0 .. MaxDrift)
    \/ \E touches \in Touches : ontouchmove(touches, 0 .. MaxDrift)

(* The step creates one star, at p, and attaches it to the banner. *)
SpawnsAt(p) ==
    /\ Len(stars') = Len(stars) + 1
    /\ stars'[Len(stars')].position = p
    /\ children' = children \cup {Len(stars')}

(* The step creates no star and leaves the banner's children alone. *)
SpawnsNothing ==
    /\ stars' = stars
    /\ children' = children
    /\ timers' = timers

(* Elapsed time the handler computes for a sample delivered in this state. *)
Elapsed == clock - last.starTimestamp

----------------------------------------------------------------------------
(* C1: every gated sample (isHovering) at a position at least 100 px, or    *)
(* exactly 100 px, from last.starPosition spawns a star at that position,   *)
(* whatever the elapsed time since last.starTimestamp.                      *)
C1_FarSampleSpawns ==
    [][ \A p \in Positions :
          (isHovering /\ AtLeast100Apart(last.starPosition, p) /\ Sample(p))
              => SpawnsAt(p) ]_vars

(* A star was spawned exactly 100 px from the star before it, at the very   *)
(* millisecond that one was spawned (elapsed time 0).                       *)
C1_Witness ==
    \E i \in 2 .. Len(stars) :
        /\ DistSq(stars[i - 1].position, stars[i].position) = 100 * 100
        /\ stars[i].appendedAt = stars[i - 1].appendedAt
        /\ last.starTimestamp = stars[i].appendedAt

(* C2: every gated sample whose elapsed time since last.starTimestamp is    *)
(* more than 200 ms spawns a star, also at exactly last.starPosition.       *)
C2_LateSampleSpawns ==
    [][ \A p \in Positions :
          (isHovering /\ Elapsed > 200 /\ Sample(p)) => SpawnsAt(p) ]_vars

(* A star was spawned at the position of the star before it, 201 ms later.  *)
C2_Witness ==
    \E i \in 2 .. Len(stars) :
        /\ stars[i].position = stars[i - 1].position
        /\ stars[i].appendedAt = stars[i - 1].appendedAt + 201

(* C3: a gated sample with elapsed time at most 200 ms and less than 100 px *)
(* from last.starPosition spawns nothing and leaves the stars on the banner *)
(* unchanged.                                                               *)
C3_NearEarlySampleSpawnsNothing ==
    [][ \A p \in Positions :
          (isHovering /\ Elapsed <= 200
                      /\ ~AtLeast100Apart(last.starPosition, p)
                      /\ Sample(p))
              => SpawnsNothing ]_vars

(* The last event was a gated sample 70 px from the last star, no later     *)
(* than 200 ms after it, and it spawned nothing.                            *)
C3_Witness ==
    /\ isHovering
    /\ ev \in {"mousemove", "touchmove"}
    /\ Len(stars) = 1
    /\ last.starPosition = stars[1].position
    /\ last.mousePosition # last.starPosition
    /\ DistSq(last.starPosition, last.mousePosition) = 70 * 70
    /\ Elapsed = 200

(* C4: while isHovering is false a pointer-move event changes nothing: no   *)
(* star, and `last` unchanged.  isHovering is false initially, becomes      *)
(* true only in the banner's mouseenter and false only in its mouseleave.   *)
C4_UngatedMoveDropped ==
    /\ ~isHovering
    /\ [][ /\ (~isHovering /\ PointerMove)
               => (SpawnsNothing /\ last' = last /\ uncaught' = uncaught)
           /\ (~isHovering /\ isHovering') => BannerMouseEnter
           /\ (isHovering /\ ~isHovering') => BannerMouseLeave ]_vars

(* The last event was a pointer move delivered while not hovering, with a   *)
(* star on the banner.                                                      *)
C4_Witness ==
    /\ ~isHovering
    /\ ev \in {"mousemove", "touchmove"}
    /\ Len(stars) > 0
    /\ children # {}

(* C5 as claimed: two consecutive stars are never 200 ms or less apart in   *)
(* time, however far apart they are.                                        *)
C5_AlwaysSpacedInTime ==
    \A i \in 2 .. Len(stars) :
        stars[i].appendedAt - stars[i - 1].appendedAt > 200

(* C5, amended: two consecutive stars are 200 ms or less apart in time only *)
(* when they are at least 100 px apart.                                     *)
C5_CloseInTimeOnlyIfFar ==
    \A i \in 2 .. Len(stars) :
        stars[i].appendedAt - stars[i - 1].appendedAt <= 200
            => AtLeast100Apart(stars[i - 1].position, stars[i].position)

(* Two consecutive stars exactly 200 ms and exactly 100 px apart.           *)
C5_Witness ==
    \E i \in 2 .. Len(stars) :
        /\ stars[i].appendedAt - stars[i - 1].appendedAt = 200
        /\ DistSq(stars[i - 1].position, stars[i].position) = 100 * 100

(* C6 as claimed: two consecutive stars are never closer than 100 px,       *)
(* however much time has passed between them.                               *)
C6_AlwaysSpacedInDistance ==
    \A i \in 2 .. Len(stars) :
        AtLeast100Apart(stars[i - 1].position, stars[i].position)

(* C6, amended: a star is spawned closer than 100 px to the star before it  *)
(* only by a sample that arrives more than 200 ms after last.starTimestamp. *)
C6_NearOnlyIfLate ==
    [][ \A p \in Positions :
          (/\ Len(stars) >= 1
           /\ SpawnsAt(p)
           /\ ~AtLeast100Apart(stars[Len(stars)].position, p))
              => Elapsed > 200 ]_vars

(* Two consecutive stars 70 px apart.                                       *)
C6_Witness ==
    \E i \in 2 .. Len(stars) :
        /\ DistSq(stars[i - 1].position, stars[i].position) = 70 * 70
        /\ stars[i].appendedAt - stars[i - 1].appendedAt > 200

(* C7: the first gated sample after a document-leave reset, when it arrives *)
(* 200 ms or less after last.starTimestamp, spawns a star only if it is at  *)
(* least 100 px from a position where a star was actually spawned (never    *)
(* because of its distance from the {0,0} sentinel alone).                  *)
C7_NoSpawnFromSentinel ==
    [][ \A p \in Positions :
          (/\ isHovering
           /\ resetPending
           /\ Elapsed <= 200
           /\ SpawnsAt(p)
           /\ Sample(p))
              => \E i \in 1 .. Len(stars) : AtLeast100Apart(stars[i].position, p) ]_vars

(* C8: under the simulated clock, a star created at time t is a child of    *)
(* the banner at every time in [t, t + 3000) and is not at any time from    *)
(* t + 3000 on.                                                             *)
C8_StarLifetime ==
    \A i \in 1 .. Len(stars) :
        /\ stars[i].appendedAt <= clock
        /\ (i \in children) <=> (clock < stars[i].appendedAt + 3000)

(* One star is 3000 ms old and gone while another, 2999 ms old, is still on *)
(* the banner.                                                              *)
C8_Witness ==
    \E i, j \in 1 .. Len(stars) :
        /\ clock = stars[i].appendedAt + 3000
        /\ i \notin children
        /\ clock = stars[j].appendedAt + 2999
        /\ j \in children

(* C9: every gated sample sets last.mousePosition to its position, whether  *)
(* or not it spawns; last.starPosition and last.starTimestamp change only   *)
(* in a step that spawns a star.                                            *)
C9_ThrottleStateFrame ==
    [][ /\ \A p \in Positions :
              (isHovering /\ last'.mousePosition # p) => ~Sample(p)
        /\ (\/ last'.starPosition # last.starPosition
            \/ last'.starTimestamp # last.starTimestamp)
              => Len(stars') = Len(stars) + 1 ]_vars

(* The last event was a gated sample that spawned nothing: it moved         *)
(* last.mousePosition and left last.starPosition and last.starTimestamp at  *)
(* the last star.                                                           *)
C9_Witness ==
    /\ isHovering
    /\ ev = "mousemove"
    /\ Len(stars) = 2
    /\ last.starPosition = stars[2].position
    /\ last.starTimestamp >= stars[2].appendedAt
    /\ last.mousePosition # last.starPosition
    /\ last.mousePosition # originPosition

(* C10: document.body.onmouseleave sets last.mousePosition to {0,0} and     *)
(* leaves last.starPosition, last.starTimestamp, isHovering and the stars   *)
(* on the banner unchanged, hovering or not.                                *)
C10_DocumentLeaveFrame ==
    [][ BodyMouseLeave =>
          /\ last' = [last EXCEPT !.mousePosition = originPosition]
          /\ isHovering' = isHovering
          /\ SpawnsNothing ]_vars

(* The document was left while hovering, with a star on the banner and the  *)
(* throttle state of that star kept.                                        *)
C10_Witness ==
    /\ isHovering
    /\ ev = "bodyleave"
    /\ resetPending
    /\ children # {}
    /\ last.mousePosition = originPosition
    /\ last.starPosition # originPosition
    /\ last.starTimestamp > 0

(* C11: a touch move whose touch list is empty creates no star, leaves      *)
(* last alone and leaves no uncaught error behind, with isHovering false    *)
(* and with isHovering true.                                                *)
C11_EmptyTouchListTolerated ==
    [][ ontouchmove(<< >>, 0 .. MaxDrift)
          => (SpawnsNothing /\ last' = last /\ uncaught' = uncaught) ]_vars

(* C12: when the timer of a star that is no longer a child of the banner    *)
(* fires, nothing happens: no uncaught error, and the hover flag, last, the *)
(* stars and the banner's children are as before.                           *)
C12_LateRemovalSilent ==
    [][ (/\ \E t \in timers : t \notin timers' /\ t.star \notin children
         /\ TimerFire)
          => (/\ uncaught' = uncaught
              /\ children' = children
              /\ UNCHANGED <<isHovering, last, stars>>) ]_vars

(* The pending timers whose callback removes star i. *)
TimersOf(i) == { t \in timers : t.star = i }

(* C13: every star has exactly one removal timer pending while it is a      *)
(* child of the banner and none once it is detached; a detached star is     *)
(* never attached again, and a star is detached only by the step in which   *)
(* its own timer fires, which consumes that timer and no other.             *)
C13_DestroyedOnce ==
    /\ [](\A i \in 1 .. Len(stars) :
            /\ Cardinality(TimersOf(i)) <= 1
            /\ i \in children <=> TimersOf(i) # {})
    /\ [][ \A i \in 1 .. Len(stars) :
             /\ i \notin children => i \notin children'
             /\ (i \in children /\ i \notin children')
                  => (timers \ timers' = TimersOf(i) /\ TimerFire) ]_vars

(* Two stars were created; the first has been detached by its timer while   *)
(* the second, whose timer is already due, is still on the banner.          *)
C13_Witness ==
    /\ Len(stars) = 2
    /\ 1 \notin children
    /\ TimersOf(1) = {}
    /\ 2 \in children
    /\ \E t \in TimersOf(2) : t.due <= clock

(* C14: last.starPosition and last.mousePosition start as the {0,0}         *)
(* sentinel, and a step changes either of them only to the position of a    *)
(* pointer sample delivered in that step while isHovering is true, or, for  *)
(* last.mousePosition, back to the sentinel when the pointer leaves the     *)
(* document.                                                                *)
C14_PositionsFromGatedSamples ==
    /\ last.starPosition = originPosition
    /\ last.mousePosition = originPosition
    /\ [][ /\ last'.starPosition # last.starPosition
                => (isHovering /\ Sample(last'.starPosition))
           /\ last'.mousePosition # last.mousePosition
                => \/ isHovering /\ Sample(last'.mousePosition)
                   \/ BodyMouseLeave /\ last'.mousePosition = originPosition
         ]_vars

(* Outside the banner, after a pointer move that was dropped, last still    *)
(* holds the positions of two different gated samples.                      *)
C14_Witness ==
    /\ ~isHovering
    /\ ev \in {"mousemove", "touchmove"}
    /\ last.starPosition \in Positions \ {originPosition}
    /\ last.mousePosition \in Positions \ {originPosition, last.starPosition}

(* C16: a gated sample at p that spawns a star sets last.starPosition to p  *)
(* and last.starTimestamp to `now`, the clock reading from which the        *)
(* handler computed the elapsed time of that sample.                        *)
C16_TimestampIsDecisionTime ==
    [][ \A p \in Positions :
          (isHovering /\ SpawnsAt(p) /\ Sample(p))
              => (/\ last'.starPosition = p
                  /\ last'.starTimestamp = clock) ]_vars

(* C19: a step in which a removal timer fires consumes one timer, detaches  *)
(* the star of that timer and no other, and leaves isHovering, last, the    *)
(* stars' records, the clock and the uncaught errors as they were, whatever *)
(* events came before it.                                                   *)
C19_TimerFireFrame ==
    [][ TimerFire
          => /\ \E t \in timers :
                  /\ t.due <= clock
                  /\ timers' = timers \ {t}
                  /\ children' = children \ {t.star}
             /\ UNCHANGED <<isHovering, last, stars, clock, uncaught>> ]_vars

(* A timer has fired between two pointer events: the first star is gone,    *)
(* the second is still on the banner, the pointer is over the banner and    *)
(* last holds the second star's position.                                   *)
C19_Witness ==
    /\ Len(stars) = 2
    /\ children = {2}
    /\ isHovering
    /\ ev \in {"mousemove", "touchmove"}
    /\ last.starPosition = stars[2].position
    /\ clock < stars[2].appendedAt + StarLifetime

(* C18: last.mousePosition has no part in what is spawned.  Whether a gated *)
(* sample at p (a step that, by C9, leaves p in last.mousePosition) spawns  *)
(* is fixed by last.starPosition, last.starTimestamp, the clock and p       *)
(* alone; a spawning sample stores p and the clock reading in               *)
(* last.starPosition and last.starTimestamp; a sample that does not spawn   *)
(* leaves both alone; and the document-leave reset, which only rewrites     *)
(* last.mousePosition, changes nothing a later decision reads.              *)
C18_MousePositionNeverDecides ==
    [][ /\ \A p \in Positions :
             (isHovering /\ last'.mousePosition = p /\ Sample(p))
                 => IF AtLeast100Apart(last.starPosition, p) \/ Elapsed > 200
                    THEN /\ SpawnsAt(p)
                         /\ last'.starPosition = p
                         /\ last'.starTimestamp = clock'
                    ELSE /\ SpawnsNothing
                         /\ last'.starPosition = last.starPosition
                         /\ last'.starTimestamp = last.starTimestamp
        /\ BodyMouseLeave
             => /\ SpawnsNothing
                /\ last'.starPosition = last.starPosition
                /\ last'.starTimestamp = last.starTimestamp
                /\ UNCHANGED <<isHovering, clock>> ]_vars

(* A gated sample has been decided with last.mousePosition different from   *)
(* last.starPosition: the one star is still on the banner, within 200 ms of *)
(* its creation, and the pointer has moved on to another position without   *)
(* spawning.                                                                *)
C18_Witness ==
    /\ isHovering
    /\ ev \in {"mousemove", "touchmove"}
    /\ Len(stars) = 1
    /\ children = {1}
    /\ last.starPosition = stars[1].position
    /\ last.mousePosition \notin {originPosition, last.starPosition}
    /\ clock - last.starTimestamp <= 200

(* The elements of a sequence. *)
Range(items) == { items[i] : i \in DOMAIN items }

EmptyPalette == palettes.colors = << >> \/ palettes.sizes = << >>

C17_StyleFromPalettes ==
    ~EmptyPalette
        => /\ \A r \in Randoms :
                /\ rand(0, Len(palettes.colors) - 1, r) \in 0 .. Len(palettes.colors) - 1
                /\ rand(0, Len(palettes.sizes) - 1, r) \in 0 .. Len(palettes.sizes) - 1
           /\ \A i \in 1 .. Len(stars) :
                /\ stars[i].color \in Range(palettes.colors)
                /\ stars[i].fontSize \in Range(palettes.sizes)
                /\ stars[i].textShadow = stars[i].color
           /\ (isHovering /\ Len(stars) < MaxStars)
                => \A c \in Range(palettes.colors), s \in Range(palettes.sizes) :
                       ENABLED (/\ AnyDrawMouseMove
                                /\ Len(stars') = Len(stars) + 1
                                /\ stars'[Len(stars')].color = c
                                /\ stars'[Len(stars')].fontSize = s)

(* With the palettes as written, one star has the last colour with the      *)
(* first size and the next one the first colour with the last size.         *)
C17_Witness ==
    /\ palettes.colors = colors
    /\ palettes.sizes = sizes
    /\ Len(stars) = 2
    /\ stars[1].color = colors[3] /\ stars[1].fontSize = sizes[1]
    /\ stars[1].textShadow = colors[3]
    /\ stars[2].color = colors[1] /\ stars[2].fontSize = sizes[3]

====
